---- MODULE Spec2Model ----
(***************************************************************************)
(* Model of src/prompt.rs: prompt templates parsed from a YAML document    *)
(* (deserialize_prompt), the completion renderer (example_count,           *)
(* final_prompt) and the typed parameter accessors of Completion and Chat. *)
(*                                                                         *)
(* A YAML document is a tree of nodes.  A scalar node carries the text it  *)
(* was written with and the kind the YAML resolver gives it; an integer    *)
(* also carries its 64-bit pattern as four 16-bit limbs, most significant  *)
(* first, so that `as i32` keeps its width.  serde's derived Deserialize   *)
(* is modelled per target type: a String accepts every scalar and takes    *)
(* its text, an Option is None for a missing key or a null, a Vec needs a  *)
(* sequence, a struct needs a mapping and ignores keys it does not know.   *)
(* `unwrap()` on a failure is a panic: the call returns nothing.           *)
(***************************************************************************)
EXTENDS Integers, Sequences, FiniteSets, TLC

VARIABLES yaml,    \* the document handed to deserialize_prompt
          pc,      \* "start" | "parsed" | "panicked"
          prompt,  \* the Prompt deserialize_prompt returned
          ret,     \* what the last call did: returned a value, or panicked
          memo     \* observer: one earlier call on the template and its result

vars == <<yaml, pc, prompt, ret, memo>>

\* ---------------------------------------------------------------- bounds

MaxParams == 2
MaxCols == 2
MaxVals == 2

\* ------------------------------------------------------- Option / Result

None == [some |-> FALSE]
Some(x) == [some |-> TRUE, v |-> x]
Ok(x) == [ok |-> TRUE, v |-> x]
Err == [ok |-> FALSE]

unwrap_or(opt, default) == IF opt.some THEN opt.v ELSE default

\* ------------------------------------------------------------ YAML nodes

Absent == [kind |-> "absent"]
Invalid == [kind |-> "invalid"]
StrNode(t) == [kind |-> "str", text |-> t]
IntNode(t, sign, limbs) == [kind |-> "int", text |-> t, n |-> sign, bits |-> limbs]
FloatNode(t) == [kind |-> "float", text |-> t]
BoolNode(t, b) == [kind |-> "bool", text |-> t, b |-> b]
NullNode == [kind |-> "null", text |-> "~"]
SeqNode(s) == [kind |-> "seq", items |-> s]
\* A mapping holds the keys whose node is not Absent.
MapNode(f) == [kind |-> "map",
               fields |-> [k \in {x \in DOMAIN f : f[x] # Absent} |-> f[k]]]

ScalarKinds == {"str", "int", "float", "bool", "null"}

\* ------------------------------------------------- serde_yaml::Value

\* Number: PosInt(u64), NegInt(i64) or Float(f64).
ValueOf(node) ==
    CASE node.kind = "str" -> [v |-> "String", s |-> node.text]
      [] node.kind = "int" -> [v |-> "Number", n |-> node.n, bits |-> node.bits]
      [] node.kind = "float" -> [v |-> "Number", n |-> "Float", f |-> node.text]
      [] node.kind = "bool" -> [v |-> "Bool", b |-> node.b]
      [] node.kind = "null" -> [v |-> "Null"]
      [] node.kind = "seq" -> [v |-> "Sequence", items |-> node.items]
      [] node.kind = "map" -> [v |-> "Mapping", fields |-> node.fields]

\* Value::as_i64: a u64 above i64::MAX and a float have none.
as_i64(p) ==
    IF p.v # "Number" THEN None
    ELSE CASE p.n = "PosInt" -> IF p.bits[1] < 32768 THEN Some(p.bits) ELSE None
           [] p.n = "NegInt" -> Some(p.bits)
           [] p.n = "Float" -> None

\* Mutant: only a float has an f64.
as_f64_float_only(p) ==
    IF p.v # "Number" THEN None
    ELSE CASE p.n = "Float" -> Some([f64 |-> "Float", f |-> p.f])
           [] OTHER -> None

\* Value::as_f64: every number has one.
as_f64(p) ==
    IF p.v # "Number" THEN None
    ELSE CASE p.n = "Float" -> Some([f64 |-> "Float", f |-> p.f])
           [] OTHER -> Some([f64 |-> p.n, bits |-> p.bits])

as_str(p) == IF p.v = "String" THEN Some(p.s) ELSE None

as_bool(p) == IF p.v = "Bool" THEN Some(p.b) ELSE None

\* `x as i32` of an i64: the low 32 bits.
cast_i32(bits) == <<bits[3], bits[4]>>

\* `x as f32` of an f64: the nearest f32 of that number.
cast_f32(x) == [f32 |-> x]

\* --------------------------------------------------------- Deserialize

\* The node under a key of a mapping; Absent when the key is missing.
Field(m, key) == IF key \in DOMAIN m THEN m[key] ELSE Absent

Items(node) == IF node.kind = "seq" THEN node.items ELSE <<>>

\* String: any scalar, by its text.  A missing field is an error.
de_String(node) == IF node.kind \in ScalarKinds THEN Ok(node.text) ELSE Err

\* Value: any node.  A missing field is an error.
de_Value(node) == IF node.kind = "absent" THEN Err ELSE Ok(ValueOf(node))

\* Mutant: a missing or null field defaults to an empty value.
de_Option_default(node, r) ==
    IF node.kind \in {"absent", "null"} THEN Ok(Some(<<>>))
    ELSE IF r.ok THEN Ok(Some(r.v)) ELSE Err

\* Option<T>: None when the key is missing or its node is null, else Some of
\* r, the outcome of deserializing the node as T.
de_Option(node, r) ==
    IF node.kind \in {"absent", "null"} THEN Ok(None)
    ELSE IF r.ok THEN Ok(Some(r.v)) ELSE Err

\* Vec<T>: a sequence all of whose items deserialize, kept in order; rs are
\* the outcomes of deserializing the items as T.
de_Vec(node, rs) ==
    IF node.kind # "seq" THEN Err
    ELSE IF \A i \in 1..Len(rs) : rs[i].ok
         THEN Ok([i \in 1..Len(rs) |-> rs[i].v])
         ELSE Err

de_VecString(node) ==
    de_Vec(node, [i \in 1..Len(Items(node)) |-> de_String(Items(node)[i])])

de_Parameter(node) ==
    IF node.kind # "map" THEN Err
    ELSE LET name == de_String(Field(node.fields, "name"))
             value == de_Value(Field(node.fields, "value"))
         IN IF name.ok /\ value.ok
            THEN Ok([name |-> name.v, value |-> value.v])
            ELSE Err

de_CompletionExampleColumn(node) ==
    IF node.kind # "map" THEN Err
    ELSE LET name == de_String(Field(node.fields, "name"))
             values == de_VecString(Field(node.fields, "values"))
             test == de_Option(Field(node.fields, "test"),
                               de_String(Field(node.fields, "test")))
         IN IF name.ok /\ values.ok /\ test.ok
            THEN Ok([name |-> name.v, values |-> values.v, test |-> test.v])
            ELSE Err

de_ChatExample(node) ==
    IF node.kind # "map" THEN Err
    ELSE LET input == de_String(Field(node.fields, "input"))
             output == de_Option(Field(node.fields, "output"),
                                 de_String(Field(node.fields, "output")))
         IN IF input.ok /\ output.ok
            THEN Ok([input |-> input.v, output |-> output.v])
            ELSE Err

\* Message has the fields of ChatExample.
de_Message(node) == de_ChatExample(node)

de_VecParameter(node) ==
    de_Vec(node, [i \in 1..Len(Items(node)) |-> de_Parameter(Items(node)[i])])

de_VecColumn(node) ==
    de_Vec(node, [i \in 1..Len(Items(node)) |->
                     de_CompletionExampleColumn(Items(node)[i])])

de_VecChatExample(node) ==
    de_Vec(node, [i \in 1..Len(Items(node)) |-> de_ChatExample(Items(node)[i])])

de_VecMessage(node) ==
    de_Vec(node, [i \in 1..Len(Items(node)) |-> de_Message(Items(node)[i])])

de_PromptType(doc) ==
    IF doc.kind # "map" THEN Err
    ELSE LET t == de_String(Field(doc.fields, "type"))
         IN IF t.ok THEN Ok([prompt_type |-> t.v]) ELSE Err

de_Completion(doc) ==
    IF doc.kind # "map" THEN Err
    ELSE LET m == doc.fields
             t == de_String(Field(m, "type"))
             vendor == de_String(Field(m, "vendor"))
             model == de_String(Field(m, "model"))
             p == de_String(Field(m, "prompt"))
             parameters == de_Option(Field(m, "parameters"),
                                     de_VecParameter(Field(m, "parameters")))
             examples == de_Option(Field(m, "examples"),
                                   de_VecColumn(Field(m, "examples")))
         IN IF t.ok /\ vendor.ok /\ model.ok /\ p.ok /\ parameters.ok /\ examples.ok
            THEN Ok([prompt_type |-> t.v, vendor |-> vendor.v, model |-> model.v,
                     prompt |-> p.v, parameters |-> parameters.v,
                     examples |-> examples.v])
            ELSE Err

de_Chat(doc) ==
    IF doc.kind # "map" THEN Err
    ELSE LET m == doc.fields
             t == de_String(Field(m, "type"))
             vendor == de_String(Field(m, "vendor"))
             model == de_String(Field(m, "model"))
             parameters == de_Option(Field(m, "parameters"),
                                     de_VecParameter(Field(m, "parameters")))
             examples == de_Option(Field(m, "examples"),
                                   de_VecChatExample(Field(m, "examples")))
             context == de_Option(Field(m, "context"),
                                  de_String(Field(m, "context")))
             messages == de_Option(Field(m, "messages"),
                                   de_VecMessage(Field(m, "messages")))
         IN IF t.ok /\ vendor.ok /\ model.ok /\ parameters.ok /\ examples.ok
               /\ context.ok /\ messages.ok
            THEN Ok([prompt_type |-> t.v, vendor |-> vendor.v, model |-> model.v,
                     parameters |-> parameters.v, examples |-> examples.v,
                     context |-> context.v, messages |-> messages.v])
            ELSE Err

\* ------------------------------------------------- deserialize_prompt

NoPrompt == [variant |-> "none"]
Returned(p) == [outcome |-> "return", prompt |-> p]
Panicked(at) == [outcome |-> "panic", at |-> at]

\* Mutant: the variants are tried in turn, whatever the type says.
deserialize_prompt_untagged(doc) ==
    IF ~de_PromptType(doc).ok THEN Panicked("PromptType")
    ELSE IF de_Completion(doc).ok
         THEN Returned([variant |-> "Completion", t |-> de_Completion(doc).v])
    ELSE IF de_Chat(doc).ok
         THEN Returned([variant |-> "Chat", t |-> de_Chat(doc).v])
    ELSE Returned([variant |-> "Unknown"])

\* The Prompt returned, or the unwrap that panicked.
deserialize_prompt(doc) ==
    LET prompt_type == de_PromptType(doc)
    IN IF ~prompt_type.ok THEN Panicked("PromptType")
       ELSE CASE prompt_type.v.prompt_type = "completion" ->
                   LET completion == de_Completion(doc)
                   IN IF completion.ok
                      THEN Returned([variant |-> "Completion", t |-> completion.v])
                      ELSE Panicked("Completion")
              [] prompt_type.v.prompt_type = "chat" ->
                   LET chat == de_Chat(doc)
                   IN IF chat.ok
                      THEN Returned([variant |-> "Chat", t |-> chat.v])
                      ELSE Panicked("Chat")
              [] OTHER -> Returned([variant |-> "Unknown"])

\* ------------------------------------------------------- find_parameter

RECURSIVE iter_find_last(_, _, _)
\* Mutant: the last parameter of that name (rfind).
iter_find_last(real_parameters, name, k) ==
    IF k > Len(real_parameters) THEN None
    ELSE LET later == iter_find_last(real_parameters, name, k + 1)
         IN IF later.some THEN later
            ELSE IF real_parameters[k].name = name THEN Some(real_parameters[k])
            ELSE None

RECURSIVE iter_find(_, _, _)
\* real_parameters.iter().find(|p| p.name == name), scanning from index k.
iter_find(real_parameters, name, k) ==
    IF k > Len(real_parameters) THEN None
    ELSE IF real_parameters[k].name = name THEN Some(real_parameters[k])
    ELSE iter_find(real_parameters, name, k + 1)

find_parameter(parameters, name) ==
    IF parameters.some
    THEN LET x == iter_find(parameters.v, name, 1)
         IN IF x.some THEN Some(x.v.value) ELSE None
    ELSE None

\* ------------------------------------------------------ impl Completion

RECURSIVE max_length_loop_last(_, _, _)
\* Mutant: the length is taken without the comparison.
max_length_loop_last(columns, k, max_length) ==
    IF k > Len(columns) THEN max_length
    ELSE max_length_loop_last(columns, k + 1, Len(columns[k].values))

RECURSIVE max_length_loop(_, _, _)
\* The loop of example_count over columns k.., max_length so far.
max_length_loop(columns, k, max_length) ==
    IF k > Len(columns) THEN max_length
    ELSE max_length_loop(columns, k + 1,
                         IF Len(columns[k].values) > max_length
                         THEN Len(columns[k].values)
                         ELSE max_length)

example_count(self) ==
    IF self.examples.some THEN max_length_loop(self.examples.v, 1, 0) ELSE 0

\* Mutant: past the end, the last value again.
get_clamped(values, i) ==
    IF Len(values) = 0 THEN None
    ELSE Some(values[IF i < Len(values) THEN i + 1 ELSE Len(values)])

\* Vec::get(i), i counted from 0.
get(values, i) == IF i < Len(values) THEN Some(values[i + 1]) ELSE None

\* format!("{}: {}\n", name, value)
format_line(name, value) == name \o ": " \o value \o "\n"

RECURSIVE push_example_lines(_, _, _, _)
\* The inner loop of final_prompt: row i's line of each column k.. .
push_example_lines(out, columns, k, i) ==
    IF k > Len(columns) THEN out
    ELSE push_example_lines(
             out \o format_line(columns[k].name, unwrap_or(get(columns[k].values, i), "")),
             columns, k + 1, i)

RECURSIVE push_example_rows(_, _, _, _)
\* The outer loop of final_prompt: rows i..count-1, a "\n" after each.
push_example_rows(out, columns, i, count) ==
    IF i >= count THEN out
    ELSE push_example_rows(push_example_lines(out, columns, 1, i) \o "\n",
                           columns, i + 1, count)

RECURSIVE push_test_lines(_, _, _)
\* The last loop of final_prompt: the test line of each column k.. .
push_test_lines(out, columns, k) ==
    IF k > Len(columns) THEN out
    ELSE push_test_lines(
             out \o format_line(columns[k].name, unwrap_or(columns[k].test, "")),
             columns, k + 1)

final_prompt(self) ==
    LET start == self.prompt \o "\n\n"
    IN IF self.examples.some
       THEN push_test_lines(
                push_example_rows(start, self.examples.v, 0, example_count(self)),
                self.examples.v, 1)
       ELSE start

\* What a call did.
Return(x) == [outcome |-> "return", value |-> x]
Panic == [outcome |-> "panic"]

\* find_parameter(..).map(|p| p.as_X().unwrap() ..): None when no parameter is
\* found; a panic when the value found has no as_X.
Completion_find_parameter_as_i32(self, name) ==
    LET p == find_parameter(self.parameters, name)
    IN IF ~p.some THEN Return(None)
       ELSE IF as_i64(p.v).some THEN Return(Some(cast_i32(as_i64(p.v).v)))
       ELSE Panic

Completion_find_parameter_as_f32(self, name) ==
    LET p == find_parameter(self.parameters, name)
    IN IF ~p.some THEN Return(None)
       ELSE IF as_f64(p.v).some THEN Return(Some(cast_f32(as_f64(p.v).v)))
       ELSE Panic

Completion_find_parameter_as_str(self, name) ==
    LET p == find_parameter(self.parameters, name)
    IN IF ~p.some THEN Return(None)
       ELSE IF as_str(p.v).some THEN Return(Some(as_str(p.v).v))
       ELSE Panic

Completion_find_parameter_as_bool(self, name) ==
    LET p == find_parameter(self.parameters, name)
    IN IF ~p.some THEN Return(None)
       ELSE IF as_bool(p.v).some THEN Return(Some(as_bool(p.v).v))
       ELSE Panic

\* ------------------------------------------------------------ impl Chat

Chat_find_parameter_as_i32(self, name) ==
    LET p == find_parameter(self.parameters, name)
    IN IF ~p.some THEN Return(None)
       ELSE IF as_i64(p.v).some THEN Return(Some(cast_i32(as_i64(p.v).v)))
       ELSE Panic

Chat_find_parameter_as_f32(self, name) ==
    LET p == find_parameter(self.parameters, name)
    IN IF ~p.some THEN Return(None)
       ELSE IF as_f64(p.v).some THEN Return(Some(cast_f32(as_f64(p.v).v)))
       ELSE Panic

Chat_find_parameter_as_str(self, name) ==
    LET p == find_parameter(self.parameters, name)
    IN IF ~p.some THEN Return(None)
       ELSE IF as_str(p.v).some THEN Return(Some(as_str(p.v).v))
       ELSE Panic

Chat_find_parameter_as_bool(self, name) ==
    LET p == find_parameter(self.parameters, name)
    IN IF ~p.some THEN Return(None)
       ELSE IF as_bool(p.v).some THEN Return(Some(as_bool(p.v).v))
       ELSE Panic

\* ------------------------------------------------------------ documents

\* A top-level mapping; an Absent argument is a key the document lacks.
Doc(type, vendor, model, p, parameters, examples, context, messages) ==
    MapNode([type |-> type, vendor |-> vendor, model |-> model, prompt |-> p,
             parameters |-> parameters, examples |-> examples,
             context |-> context, messages |-> messages])

ParamNode(name, value) == MapNode([name |-> StrNode(name), value |-> value])

StrNodes(values) == SeqNode([i \in 1..Len(values) |-> StrNode(values[i])])

ColumnNode(name, values, test) ==
    MapNode([name |-> StrNode(name), values |-> StrNodes(values), test |-> test])

ExchangeNode(input, output) == MapNode([input |-> StrNode(input), output |-> output])

\* Integers as the document writes them and as the resolver reads them.
IntNodes ==
    { IntNode("0", "PosInt", <<0, 0, 0, 0>>),
      IntNode("256", "PosInt", <<0, 0, 0, 256>>),
      IntNode("-1", "NegInt", <<65535, 65535, 65535, 65535>>),
      IntNode("2147483647", "PosInt", <<0, 0, 32767, 65535>>),
      IntNode("2147483648", "PosInt", <<0, 0, 32768, 0>>),
      IntNode("-2147483648", "NegInt", <<65535, 65535, 32768, 0>>),
      IntNode("-2147483649", "NegInt", <<65535, 65535, 32767, 65535>>),
      IntNode("4294967552", "PosInt", <<0, 1, 0, 256>>),
      IntNode("9223372036854775807", "PosInt", <<32767, 65535, 65535, 65535>>),
      IntNode("-9223372036854775808", "NegInt", <<32768, 0, 0, 0>>),
      IntNode("9223372036854775808", "PosInt", <<32768, 0, 0, 0>>),
      IntNode("18446744073709551615", "PosInt", <<65535, 65535, 65535, 65535>>) }

ValueNodes ==
    IntNodes \cup { FloatNode("0.4"), StrNode("abc"), StrNode("256"),
                    BoolNode("true", TRUE), BoolNode("false", FALSE), NullNode }

SmallValueNodes ==
    { IntNode("256", "PosInt", <<0, 0, 0, 256>>), FloatNode("0.4"), StrNode("abc") }

\* Names parameters carry, and names the accessors are asked for.
PNames == {"temperature", "Temperature"}
QNames == {"temperature", "Temperature", "maxOutputTokens"}

ParamLists ==
    {Absent, NullNode}
    \cup { SeqNode(s) : s \in UNION { [1..n -> { ParamNode(nm, v) :
                                nm \in PNames, v \in SmallValueNodes }] :
                                n \in 0..MaxParams } }
    \cup { SeqNode(<<ParamNode("temperature", v)>>) : v \in ValueNodes }

\* Example values, as in the tests: a column holds the first n of its rows.
RowValues(name) ==
    IF name = "input" THEN <<"a", "b", "c", "d">> ELSE <<"x", "y", "z", "w">>

ColumnNodes ==
    { ColumnNode(nm, SubSeq(RowValues(nm), 1, n), t) :
        nm \in {"input", "output"}, n \in 0..MaxVals, t \in {Absent, StrNode("c")} }

ColumnLists ==
    {Absent} \cup { SeqNode(s) : s \in UNION { [1..n -> ColumnNodes] : n \in 0..MaxCols } }

\* The documents of the tests.
TestCompletionYaml ==
    Doc(StrNode("completion"), StrNode("google"), StrNode("text-bison"),
        StrNode("Write a hello world in java"),
        SeqNode(<<ParamNode("maxOutputTokens", IntNode("256", "PosInt", <<0, 0, 0, 256>>)),
                  ParamNode("temperature", FloatNode("0.4"))>>),
        SeqNode(<<ColumnNode("input", <<"a", "b">>, StrNode("c")),
                  ColumnNode("output", <<"x", "y">>, Absent)>>),
        Absent, Absent)

TestChatYaml ==
    Doc(StrNode("chat"), StrNode("google"), StrNode("chat-bison"), Absent,
        SeqNode(<<ParamNode("maxOutputTokens", IntNode("256", "PosInt", <<0, 0, 0, 256>>)),
                  ParamNode("temperature", FloatNode("0.4"))>>),
        SeqNode(<<ExchangeNode("who are u?", StrNode("I'm google"))>>),
        Absent,
        SeqNode(<<ExchangeNode("what's your name?", Absent)>>))

TestUnknownYaml ==
    Doc(StrNode("unknown"), Absent, Absent, Absent, Absent, Absent, Absent, Absent)

TestDocs == {TestCompletionYaml, TestChatYaml, TestUnknownYaml}

\* Templates with every shape of parameter list.
ParamDocs ==
    { Doc(StrNode(t), StrNode("google"), StrNode("bison"),
          IF t = "completion" THEN StrNode("Write") ELSE Absent,
          ps, Absent, Absent, Absent) :
        t \in {"completion", "chat"}, ps \in ParamLists }

\* Completions with every shape of example table.
RenderDocs ==
    { Doc(StrNode("completion"), StrNode("google"), StrNode("bison"), StrNode("Write"),
          Absent, ex, Absent, Absent) : ex \in ColumnLists }

\* Documents that match a schema, miss it, or have no usable type.
ParseDocs ==
    { Doc(type, vendor, model, p, parameters, examples, context, messages) :
        type \in { Absent, StrNode("completion"), StrNode("chat"), StrNode("unknown"),
                   StrNode("Completion"), IntNode("5", "PosInt", <<0, 0, 0, 5>>),
                   SeqNode(<<StrNode("chat")>>) },
        vendor \in { Absent, StrNode("google"), IntNode("123", "PosInt", <<0, 0, 0, 123>>),
                     SeqNode(<<>>) },
        model \in { Absent, StrNode("bison") },
        p \in { Absent, StrNode("Write"), BoolNode("true", TRUE) },
        parameters \in { Absent,
                         SeqNode(<<ParamNode("temperature", FloatNode("0.4")),
                                   ParamNode("topK", StrNode("40"))>>),
                         SeqNode(<<ParamNode("temperature", FloatNode("0.4")),
                                   MapNode([name |-> StrNode("topK")])>>),
                         StrNode("none") },
        examples \in { Absent,
                       SeqNode(<<ColumnNode("input", <<"a">>, Absent)>>),
                       SeqNode(<<ExchangeNode("hi", StrNode("hello"))>>) },
        context \in { Absent, StrNode("be brief") },
        messages \in { Absent, SeqNode(<<ExchangeNode("hi", Absent)>>),
                       SeqNode(<<StrNode("hi")>>) } }
    \cup { Invalid, StrNode("completion") }

Documents == TestDocs \cup ParamDocs \cup RenderDocs \cup ParseDocs

FrameDocuments == TestDocs \cup ParamDocs

\* -------------------------------------------------------------- actions

NoCall == [op |-> "none", arg |-> "", res |-> [outcome |-> "none"]]
MemoOff == [state |-> "off"]
MemoEmpty == [state |-> "empty"]

\* The observer may remember one call made on the template, and the template
\* as it was when the call was made.
Observe(op, arg, res) ==
    IF memo.state = "empty"
    THEN {memo, [state |-> "set", prompt |-> prompt, op |-> op, arg |-> arg, res |-> res]}
    ELSE {memo}

\* A call on the parsed template, which it borrows immutably (&self).
Call(op, arg, res) ==
    /\ pc = "parsed"
    /\ ret' = [op |-> op, arg |-> arg, res |-> res]
    /\ memo' \in Observe(op, arg, res)
    /\ UNCHANGED <<yaml, pc, prompt>>

DeserializePrompt ==
    /\ pc = "start"
    /\ LET r == deserialize_prompt(yaml)
       IN /\ pc' = IF r.outcome = "return" THEN "parsed" ELSE "panicked"
          /\ prompt' = IF r.outcome = "return" THEN r.prompt ELSE NoPrompt
          /\ ret' = [op |-> "deserialize_prompt", arg |-> "", res |-> r]
    /\ UNCHANGED <<yaml, memo>>

ExampleCount ==
    /\ prompt.variant = "Completion"
    /\ Call("example_count", "", Return(example_count(prompt.t)))

FinalPrompt ==
    /\ prompt.variant = "Completion"
    /\ Call("final_prompt", "", Return(final_prompt(prompt.t)))

CompletionFindParameterAsI32(name) ==
    /\ prompt.variant = "Completion"
    /\ Call("find_parameter_as_i32", name, Completion_find_parameter_as_i32(prompt.t, name))

CompletionFindParameterAsF32(name) ==
    /\ prompt.variant = "Completion"
    /\ Call("find_parameter_as_f32", name, Completion_find_parameter_as_f32(prompt.t, name))

CompletionFindParameterAsStr(name) ==
    /\ prompt.variant = "Completion"
    /\ Call("find_parameter_as_str", name, Completion_find_parameter_as_str(prompt.t, name))

\* Mutant: the lookup takes the parameter list out of the template.
CompletionFindParameterAsBool_take(name) ==
    /\ prompt.variant = "Completion"
    /\ pc = "parsed"
    /\ ret' = [op |-> "find_parameter_as_bool", arg |-> name,
               res |-> Completion_find_parameter_as_bool(prompt.t, name)]
    /\ memo' \in Observe("find_parameter_as_bool", name,
                         Completion_find_parameter_as_bool(prompt.t, name))
    /\ prompt' = [prompt EXCEPT !.t.parameters = None]
    /\ UNCHANGED <<yaml, pc>>

CompletionFindParameterAsBool(name) ==
    /\ prompt.variant = "Completion"
    /\ Call("find_parameter_as_bool", name, Completion_find_parameter_as_bool(prompt.t, name))

ChatFindParameterAsI32(name) ==
    /\ prompt.variant = "Chat"
    /\ Call("find_parameter_as_i32", name, Chat_find_parameter_as_i32(prompt.t, name))

ChatFindParameterAsF32(name) ==
    /\ prompt.variant = "Chat"
    /\ Call("find_parameter_as_f32", name, Chat_find_parameter_as_f32(prompt.t, name))

ChatFindParameterAsStr(name) ==
    /\ prompt.variant = "Chat"
    /\ Call("find_parameter_as_str", name, Chat_find_parameter_as_str(prompt.t, name))

ChatFindParameterAsBool(name) ==
    /\ prompt.variant = "Chat"
    /\ Call("find_parameter_as_bool", name, Chat_find_parameter_as_bool(prompt.t, name))

Init ==
    /\ yaml \in Documents
    /\ pc = "start"
    /\ prompt = NoPrompt
    /\ ret = NoCall
    /\ memo = MemoOff

InitFrame ==
    /\ yaml \in FrameDocuments
    /\ pc = "start"
    /\ prompt = NoPrompt
    /\ ret = NoCall
    /\ memo = MemoEmpty

Next ==
    \/ DeserializePrompt
    \/ ExampleCount
    \/ FinalPrompt
    \/ \E name \in QNames : CompletionFindParameterAsI32(name)
    \/ \E name \in QNames : CompletionFindParameterAsF32(name)
    \/ \E name \in QNames : CompletionFindParameterAsStr(name)
    \/ \E name \in QNames : CompletionFindParameterAsBool(name)
    \/ \E name \in QNames : ChatFindParameterAsI32(name)
    \/ \E name \in QNames : ChatFindParameterAsF32(name)
    \/ \E name \in QNames : ChatFindParameterAsStr(name)
    \/ \E name \in QNames : ChatFindParameterAsBool(name)

Spec == Init /\ [][Next]_vars

SpecFrame == InitFrame /\ [][Next]_vars

\* --------------------------------------------------------------- claims

IsScalar(node) == node.kind \in ScalarKinds

\* The document is a mapping whose type is a scalar with text t.
HasType(doc, t) ==
    /\ doc.kind = "map"
    /\ "type" \in DOMAIN doc.fields
    /\ IsScalar(doc.fields["type"])
    /\ doc.fields["type"].text = t

\* Key k is missing from mapping m, or null.
Omitted(m, k) == k \notin DOMAIN m \/ m[k].kind = "null"

RequiredScalar(m, k) == k \in DOMAIN m /\ IsScalar(m[k])

OptionalScalar(m, k) == Omitted(m, k) \/ IsScalar(m[k])

ParameterEntryOk(e) ==
    /\ e.kind = "map"
    /\ RequiredScalar(e.fields, "name")
    /\ "value" \in DOMAIN e.fields

ColumnEntryOk(e) ==
    /\ e.kind = "map"
    /\ RequiredScalar(e.fields, "name")
    /\ "values" \in DOMAIN e.fields
    /\ e.fields["values"].kind = "seq"
    /\ \A j \in 1..Len(e.fields["values"].items) : IsScalar(e.fields["values"].items[j])
    /\ OptionalScalar(e.fields, "test")

ExchangeEntryOk(e) ==
    /\ e.kind = "map"
    /\ RequiredScalar(e.fields, "input")
    /\ OptionalScalar(e.fields, "output")

ParametersOk(m) ==
    \/ Omitted(m, "parameters")
    \/ /\ m["parameters"].kind = "seq"
       /\ \A i \in 1..Len(m["parameters"].items) : ParameterEntryOk(m["parameters"].items[i])

ColumnsOk(m) ==
    \/ Omitted(m, "examples")
    \/ /\ m["examples"].kind = "seq"
       /\ \A i \in 1..Len(m["examples"].items) : ColumnEntryOk(m["examples"].items[i])

ExchangesOk(m, k) ==
    \/ Omitted(m, k)
    \/ /\ m[k].kind = "seq"
       /\ \A i \in 1..Len(m[k].items) : ExchangeEntryOk(m[k].items[i])

\* A string field holds a string.
RequiredString(m, k) == k \in DOMAIN m /\ m[k].kind = "str"

\* The document has the fields of a completion, each of the schema's shape.
CompletionDocOk(doc) ==
    /\ HasType(doc, "completion")
    /\ RequiredString(doc.fields, "vendor")
    /\ RequiredString(doc.fields, "model")
    /\ RequiredString(doc.fields, "prompt")
    /\ ParametersOk(doc.fields)
    /\ ColumnsOk(doc.fields)

ChatDocOk(doc) ==
    /\ HasType(doc, "chat")
    /\ RequiredString(doc.fields, "vendor")
    /\ RequiredString(doc.fields, "model")
    /\ ParametersOk(doc.fields)
    /\ ExchangesOk(doc.fields, "examples")
    /\ ExchangesOk(doc.fields, "messages")
    /\ OptionalScalar(doc.fields, "context")

\* The parsed parameter list has the document's entries, in its order.
SameParameters(parameters, m) ==
    IF Omitted(m, "parameters") THEN parameters = None
    ELSE /\ parameters.some
         /\ Len(parameters.v) = Len(m["parameters"].items)
         /\ \A i \in 1..Len(parameters.v) :
               /\ parameters.v[i].name = m["parameters"].items[i].fields["name"].text
               /\ parameters.v[i].value = ValueOf(m["parameters"].items[i].fields["value"])

SameColumns(examples, m) ==
    IF Omitted(m, "examples") THEN examples = None
    ELSE /\ examples.some
         /\ Len(examples.v) = Len(m["examples"].items)
         /\ \A i \in 1..Len(examples.v) :
               LET e == m["examples"].items[i].fields
               IN /\ examples.v[i].name = e["name"].text
                  /\ Len(examples.v[i].values) = Len(e["values"].items)
                  /\ \A j \in 1..Len(examples.v[i].values) :
                        examples.v[i].values[j] = e["values"].items[j].text
                  /\ examples.v[i].test =
                        IF Omitted(e, "test") THEN None ELSE Some(e["test"].text)

\* ---- C1

RECURSIVE Concat(_)
Concat(strings) ==
    IF Len(strings) = 0 THEN "" ELSE Head(strings) \o Concat(Tail(strings))

\* The text of column c in example row r (rows counted from 1).
Cell(c, r) == IF r <= Len(c.values) THEN c.values[r] ELSE ""

Longest(columns) ==
    LET lens == {Len(columns[k].values) : k \in 1..Len(columns)} \cup {0}
    IN CHOOSE n \in lens : \A x \in lens : x <= n

RowText(columns, r) ==
    Concat([k \in 1..Len(columns) |->
               Concat(<<columns[k].name, ": ", Cell(columns[k], r), "\n">>)]) \o "\n"

TestRowText(columns) ==
    Concat([k \in 1..Len(columns) |->
               Concat(<<columns[k].name, ": ",
                        IF columns[k].test.some THEN columns[k].test.v ELSE "", "\n">>)])

Rendering(t) ==
    IF t.examples.some
    THEN Concat(<<t.prompt, "\n", "\n",
                  Concat([r \in 1..Longest(t.examples.v) |-> RowText(t.examples.v, r)]),
                  TestRowText(t.examples.v)>>)
    ELSE Concat(<<t.prompt, "\n", "\n">>)

\* C1: final_prompt returns the base prompt and two newlines, then one block
\* per example row (a line "<name>: <value>\n" per column in declared order,
\* an empty value where the column is too short, and a "\n" after the row),
\* then the test row with no blank line after it; only the base prompt and
\* the two newlines when there are no examples; ragged columns never fail.
\* The test's document renders to the test's text.
C1_FinalPromptLayout ==
    ret.op = "final_prompt" =>
        /\ ret.res = Return(Rendering(prompt.t))
        /\ yaml = TestCompletionYaml =>
              ret.res.value = "Write a hello world in java\n\ninput: a\noutput: x\n\ninput: b\noutput: y\n\ninput: c\noutput: \n"

\* A ragged table has been rendered: two columns of different lengths, the
\* longer with at least two rows, one of them without a test value.
C1_Witness ==
    /\ ret.op = "final_prompt"
    /\ prompt.t.examples.some
    /\ Len(prompt.t.examples.v) = 2
    /\ Len(prompt.t.examples.v[1].values) = 1
    /\ Len(prompt.t.examples.v[2].values) = 2
    /\ ~prompt.t.examples.v[2].test.some
    /\ prompt.t.examples.v[1].test.some
    /\ ret.res.outcome = "return"

\* ---- C2

\* C2: example_count is the greatest length of a column's values, and 0 when
\* the examples are absent, empty, or all without values.
C2_ExampleCountIsMax ==
    ret.op = "example_count" =>
        /\ ret.res.outcome = "return"
        /\ IF prompt.t.examples.some
           THEN /\ \A k \in 1..Len(prompt.t.examples.v) :
                      Len(prompt.t.examples.v[k].values) <= ret.res.value
                /\ \/ \E k \in 1..Len(prompt.t.examples.v) :
                         Len(prompt.t.examples.v[k].values) = ret.res.value
                   \/ ret.res.value = 0
           ELSE ret.res.value = 0
        /\ yaml = TestCompletionYaml => ret.res.value = 2

\* The count of a table whose first column is the longest, longer than the last.
C2_Witness ==
    /\ ret.op = "example_count"
    /\ prompt.t.examples.some
    /\ Len(prompt.t.examples.v) = 2
    /\ Len(prompt.t.examples.v[1].values) = 2
    /\ Len(prompt.t.examples.v[2].values) = 1
    /\ ret.res.value = 2

\* ---- C3

\* C3: a document of type "completion" with vendor, model and prompt parses
\* to a Completion with those texts and with the parameters and example
\* columns of the document, in its order; a document of type "chat" with
\* vendor and model parses to a Chat in which each omitted optional field is
\* None.  (The optional fields the document has are of the schema's shape.)
C3_ParseKeepsFields ==
    /\ (pc # "start" /\ CompletionDocOk(yaml)) =>
          /\ pc = "parsed"
          /\ prompt.variant = "Completion"
          /\ prompt.t.vendor = yaml.fields["vendor"].text
          /\ prompt.t.model = yaml.fields["model"].text
          /\ prompt.t.prompt = yaml.fields["prompt"].text
          /\ SameParameters(prompt.t.parameters, yaml.fields)
          /\ SameColumns(prompt.t.examples, yaml.fields)
    /\ (pc # "start" /\ ChatDocOk(yaml)) =>
          /\ pc = "parsed"
          /\ prompt.variant = "Chat"
          /\ prompt.t.vendor = yaml.fields["vendor"].text
          /\ prompt.t.model = yaml.fields["model"].text
          /\ SameParameters(prompt.t.parameters, yaml.fields)
          /\ \A k \in {"examples", "context", "messages"} :
                Omitted(yaml.fields, k) =>
                   prompt.t[k] = None

\* The completion of the tests has been parsed: two parameters, two columns.
C3_Witness ==
    /\ pc = "parsed"
    /\ yaml = TestCompletionYaml
    /\ prompt.variant = "Completion"
    /\ Len(prompt.t.parameters.v) = 2
    /\ prompt.t.parameters.v[1].name = "maxOutputTokens"
    /\ prompt.t.examples.v[2].name = "output"

\* ---- C4

\* C4: a mapping whose type is a string other than "completion" and "chat"
\* parses to Unknown, whatever else it holds or lacks.
C4_OtherTypeIsUnknown ==
    (/\ pc # "start"
     /\ yaml.kind = "map"
     /\ "type" \in DOMAIN yaml.fields
     /\ yaml.fields["type"].kind = "str"
     /\ yaml.fields["type"].text \notin {"completion", "chat"}) =>
        /\ pc = "parsed"
        /\ prompt = [variant |-> "Unknown"]
        /\ ret.op = "deserialize_prompt" => ret.res = Returned([variant |-> "Unknown"])

\* Unknown came out of a document without a vendor and with a parameter
\* list that is no list.
C4_Witness ==
    /\ pc = "parsed"
    /\ prompt.variant = "Unknown"
    /\ yaml.fields["type"].kind = "str"
    /\ "vendor" \notin DOMAIN yaml.fields
    /\ "parameters" \in DOMAIN yaml.fields
    /\ yaml.fields["parameters"].kind = "str"

\* ---- C5

\* The document is malformed or has no string under the key type.
NoStringType(doc) ==
    \/ doc.kind # "map"
    \/ "type" \notin DOMAIN doc.fields
    \/ doc.fields["type"].kind # "str"

\* C5: when the document is malformed or has no string type field, the parse
\* fails at the reading of the type (the failure taken to be the one the
\* unwrap of that reading raises) and no template variant comes back.
C5_MalformedFails ==
    (ret.op = "deserialize_prompt" /\ NoStringType(yaml)) =>
        /\ ret.res = Panicked("PromptType")
        /\ pc = "panicked"
        /\ prompt = NoPrompt

\* ---- C6

\* The document is of a known type and misses that variant's schema: a
\* required field is missing or no string, or the parameters or examples are
\* not lists of well-formed entries.
MissesSchema(doc) ==
    \/ /\ HasType(doc, "completion")
       /\ \/ \E k \in {"vendor", "model", "prompt"} : ~RequiredString(doc.fields, k)
          \/ ~ParametersOk(doc.fields)
          \/ ~ColumnsOk(doc.fields)
    \/ /\ HasType(doc, "chat")
       /\ \/ \E k \in {"vendor", "model"} : ~RequiredString(doc.fields, k)
          \/ ~ParametersOk(doc.fields)
          \/ ~ExchangesOk(doc.fields, "examples")
          \/ ~ExchangesOk(doc.fields, "messages")

\* C6: a document of type "completion" or "chat" that misses the variant's
\* schema fails at that variant (the failure taken to be the one the unwrap
\* of that variant's reading raises); no template comes back, partial or of
\* another variant.
C6_MismatchFails ==
    (ret.op = "deserialize_prompt" /\ MissesSchema(yaml)) =>
        /\ ret.res = Panicked(IF HasType(yaml, "completion") THEN "Completion" ELSE "Chat")
        /\ pc = "panicked"
        /\ prompt = NoPrompt

\* ---- C7

AccessorOps ==
    {"find_parameter_as_i32", "find_parameter_as_f32",
     "find_parameter_as_str", "find_parameter_as_bool"}

\* The positions of the template's parameters named name.
Matches(t, name) ==
    IF t.parameters.some
    THEN {i \in 1..Len(t.parameters.v) : t.parameters.v[i].name = name}
    ELSE {}

FirstMatch(t, name) ==
    CHOOSE i \in Matches(t, name) : \A j \in Matches(t, name) : i <= j

\* What accessor op makes of a value that was found.
Coerced(op, value) ==
    CASE op = "find_parameter_as_i32" ->
            IF as_i64(value).some THEN Return(Some(cast_i32(as_i64(value).v))) ELSE Panic
      [] op = "find_parameter_as_f32" ->
            IF as_f64(value).some THEN Return(Some(cast_f32(as_f64(value).v))) ELSE Panic
      [] op = "find_parameter_as_str" ->
            IF as_str(value).some THEN Return(Some(as_str(value).v)) ELSE Panic
      [] op = "find_parameter_as_bool" ->
            IF as_bool(value).some THEN Return(Some(as_bool(value).v)) ELSE Panic

\* C7: an accessor answers from the first parameter, in list order, whose
\* name is exactly the one asked for, and returns None exactly when there is
\* none: no such name, an empty list, or no list.
C7_FirstMatchWins ==
    ret.op \in AccessorOps =>
        IF Matches(prompt.t, ret.arg) = {}
        THEN ret.res = Return(None)
        ELSE /\ ret.res # Return(None)
             /\ ret.res = Coerced(ret.op,
                                  prompt.t.parameters.v[FirstMatch(prompt.t, ret.arg)].value)

\* Two parameters share the name asked for, with different values, another
\* differs from it in case only, and the first one's value came back.
C7_Witness ==
    /\ ret.op = "find_parameter_as_str"
    /\ ret.arg = "temperature"
    /\ prompt.t.parameters.some
    /\ Len(prompt.t.parameters.v) = 2
    /\ prompt.t.parameters.v[1].name = "Temperature"
    /\ prompt.t.parameters.v[1].value = [v |-> "Number", n |-> "Float", f |-> "0.4"]
    /\ prompt.t.parameters.v[2].name = "temperature"
    /\ ret.res = Return(Some("abc"))

\* ---- C8

\* The value the accessor found for the name it was asked for.
Found(t, name) == t.parameters.v[FirstMatch(t, name)].value

IsInteger(value) == value.v = "Number" /\ value.n \in {"PosInt", "NegInt"}
IsFloat(value) == value.v = "Number" /\ value.n = "Float"

\* The kinds the claim calls compatible: an integer also serves as a float.
Compatible(op, value) ==
    CASE op = "find_parameter_as_i32" -> IsInteger(value)
      [] op = "find_parameter_as_f32" -> IsInteger(value) \/ IsFloat(value)
      [] op = "find_parameter_as_str" -> value.v = "String"
      [] op = "find_parameter_as_bool" -> value.v = "Bool"

\* The integer fits a signed 64-bit integer.
FitsI64(value) == value.n = "NegInt" \/ value.bits[1] < 32768

\* C8 as stated: a found parameter comes back present exactly when its kind
\* is compatible with the kind asked for; otherwise the call fails.
C8_PresentIffCompatibleKind ==
    (ret.op \in AccessorOps /\ Matches(prompt.t, ret.arg) # {}) =>
        IF Compatible(ret.op, Found(prompt.t, ret.arg))
        THEN ret.res.outcome = "return" /\ ret.res.value.some
        ELSE ret.res = Panic

\* C8 amended: as stated, except that as integer an integer above 2^63 - 1
\* fails like an incompatible kind.
C8_PresentIffCompatibleAndFits ==
    (ret.op \in AccessorOps /\ Matches(prompt.t, ret.arg) # {}) =>
        IF /\ Compatible(ret.op, Found(prompt.t, ret.arg))
           /\ ret.op = "find_parameter_as_i32" => FitsI64(Found(prompt.t, ret.arg))
        THEN ret.res.outcome = "return" /\ ret.res.value.some
        ELSE ret.res = Panic

\* A chat's integer parameter was asked for as a float and came back.
C8_Witness ==
    /\ prompt.variant = "Chat"
    /\ ret.op = "find_parameter_as_f32"
    /\ Matches(prompt.t, ret.arg) # {}
    /\ IsInteger(Found(prompt.t, ret.arg))
    /\ ret.res.outcome = "return"
    /\ ret.res.value.some

\* ---- C9

\* An i32 as the i64 of the same number.
SignExtend(x) ==
    IF x[1] >= 32768 THEN <<65535, 65535, x[1], x[2]>> ELSE <<0, 0, x[1], x[2]>>

\* C9: as integer, a stored integer v that fits a signed 64-bit integer
\* comes back present and equal to v.
C9_IntegerComesBackExact ==
    (/\ ret.op = "find_parameter_as_i32"
     /\ Matches(prompt.t, ret.arg) # {}
     /\ IsInteger(Found(prompt.t, ret.arg))
     /\ FitsI64(Found(prompt.t, ret.arg))) =>
        /\ ret.res.outcome = "return"
        /\ ret.res.value.some
        /\ SignExtend(ret.res.value.v) = Found(prompt.t, ret.arg).bits

\* ---- C10

\* C10: calls leave the template as it was, and a call repeated later, with
\* the same arguments, has the result it had before, failed calls included.
C10_CallsChangeNothing ==
    memo.state = "set" =>
        /\ prompt = memo.prompt
        /\ (ret.op = memo.op /\ ret.arg = memo.arg) => ret.res = memo.res

\* An accessor call failed, and a call of another operation followed it.
C10_Witness ==
    /\ memo.state = "set"
    /\ memo.res = Panic
    /\ ret.op = "final_prompt"
    /\ prompt.variant = "Completion"
    /\ prompt.t.parameters.some

====
